---- MODULE Spec2Model ----
(***************************************************************************)
(* Temporal text consolidation and motion inference of viralreplica:       *)
(* PipelineOrchestrator (services/pipeline-orchestrator),                  *)
(* StructureAnalyzerService (services/structure-analyzer) and              *)
(* MotionTrackerService (services/motion-tracker).                         *)
(*                                                                         *)
(* Numbers: JavaScript numbers are modelled as exact rationals [n, d] in   *)
(* lowest terms with d > 0; strings that the code inspects character by    *)
(* character are sequences of one-character strings.                       *)
(***************************************************************************)
EXTENDS Integers, Sequences, FiniteSets, TLC

VARIABLES
    pc,             \* position of the call under analysis
    frames,         \* RawFrameAnalysis[] handed to aggregateDetections
    fps,            \* frames per second argument of processVideo
    instances,      \* ConsolidatedTextInstance[] returned by aggregateDetections
    motionPaths,    \* Map<string, MotionPath> returned by trackTextMotion
    branch,         \* the promises of analyzeLayout, classifyRoles, generateDesignSystem
    variation,      \* the promise of generateVariations
    merged,         \* processVideo's locals after the join
    result,         \* the PipelineResult processVideo resolves with
    vision,         \* a call of VisionService.analyzeVideoFrames in progress
    editor          \* the editor store and its reRender calls in flight

pipeVars == <<branch, variation, merged, result>>
otherVars == <<vision, editor>>
vars == <<pc, frames, fps, instances, motionPaths, branch, variation, merged, result,
          vision, editor>>

-----------------------------------------------------------------------------
(* Bounds of the model *)

MaxDet == 3             \* detections in one batch
MaxFrames == 2          \* frame analyses in one batch
MaxFrameIndex == 1      \* largest frameIndex a built batch uses

-----------------------------------------------------------------------------
(* Generic helpers *)

Range(s) == {s[i] : i \in 1..Len(s)}

RECURSIVE SumSeq(_)
SumSeq(s) == IF s = <<>> THEN 0 ELSE Head(s) + SumSeq(Tail(s))

Abs(n) == IF n < 0 THEN -n ELSE n

RECURSIVE Gcd(_, _)
Gcd(a, b) == IF b = 0 THEN a ELSE Gcd(b, a % b)

\* Exact rational arithmetic standing for JavaScript number arithmetic.
Rat(n, d) ==
    LET g == Gcd(Abs(n), Abs(d))
        s == IF d < 0 THEN -1 ELSE 1
    IN  IF n = 0 THEN [n |-> 0, d |-> 1]
        ELSE [n |-> s * (n \div g), d |-> s * (d \div g)]

RatInt(k) == [n |-> k, d |-> 1]
RatAdd(a, b) == Rat(a.n * b.d + b.n * a.d, a.d * b.d)
RatSub(a, b) == Rat(a.n * b.d - b.n * a.d, a.d * b.d)
RatMul(a, b) == Rat(a.n * b.n, a.d * b.d)
RatDivInt(a, k) == Rat(a.n, a.d * k)
RatLE(a, b) == a.n * b.d <= b.n * a.d
RatLT(a, b) == a.n * b.d < b.n * a.d

RECURSIVE RatSum(_)
RatSum(s) == IF s = <<>> THEN RatInt(0) ELSE RatAdd(Head(s), RatSum(Tail(s)))

\* Array.prototype.sort with comparator (a, b) => key(a) - key(b): stable,
\* ascending.  ks[i] is the (rational) key of the i-th element; InsertIdx puts
\* index i after every index whose key is <= ks[i], which keeps equal keys in
\* arrival order.
RECURSIVE InsertIdx(_, _, _)
InsertIdx(i, p, ks) ==
    IF p = <<>> THEN <<i>>
    ELSE IF RatLT(ks[i], ks[Head(p)]) THEN <<i>> \o p
    ELSE <<Head(p)>> \o InsertIdx(i, Tail(p), ks)

RECURSIVE SortPerm(_, _)
SortPerm(n, ks) ==
    IF n = 0 THEN <<>> ELSE InsertIdx(n, SortPerm(n - 1, ks), ks)

SortByKeys(s, ks) ==
    LET p == SortPerm(Len(s), ks) IN [i \in 1..Len(s) |-> s[p[i]]]

-----------------------------------------------------------------------------
(* Characters and text normalisation *)

Space == " "
LowerOf(c) ==
    CASE c = "H" -> "h"
      [] c = "I" -> "i"
      [] c = "Y" -> "y"
      [] c = "O" -> "o"
      [] OTHER -> c

\* \w of the regular expression: letters, digits and underscore.
IsWordChar(c) == c \in {"h", "i", "y", "o", "H", "I", "Y", "O", "_", "1"}
\* \s of the regular expression.
IsSpaceChar(c) == c = Space

RECURSIVE TrimLeft(_)
TrimLeft(t) ==
    IF t # <<>> /\ IsSpaceChar(Head(t)) THEN TrimLeft(Tail(t)) ELSE t

RECURSIVE TrimRight(_)
TrimRight(t) ==
    IF t # <<>> /\ IsSpaceChar(t[Len(t)])
    THEN TrimRight(SubSeq(t, 1, Len(t) - 1)) ELSE t

Trim(t) == TrimRight(TrimLeft(t))

ToLowerCase(t) == [i \in 1..Len(t) |-> LowerOf(t[i])]

\* String.replace(/[^\w\s]/gi, ''): drops every char that is neither \w nor \s.
StripNonWord(t) == SelectSeq(t, LAMBDA c : IsWordChar(c) \/ IsSpaceChar(c))

\* PipelineOrchestrator.normalizeText
normalizeText(text) == StripNonWord(ToLowerCase(Trim(text)))

-----------------------------------------------------------------------------
(* Input domains *)

\* Detected strings: "Hi" and "hi!" share the normalized key "hi", "Yo" has
\* the key "yo", "!" normalizes to the empty key.
Texts == { <<"H", "i">>, <<"h", "i", "!">>, <<"Y", "o">>, <<"!">> }

Box(x, y, w, h) == [x |-> x, y |-> y, width |-> w, height |-> h]

\* Bounding boxes in percent of the frame: a resting box, the same box with
\* OCR jitter, and a box moved well away from it.
Boxes == { Box(10, 80, 30, 8), Box(12, 82, 30, 8), Box(20, 80, 32, 10) }

\* Confidences in tenths (4 stands for 0.4, 9 for 0.9).
Confidences == {4, 9}

\* Typography/styling hints of the n-th frame analysis of a batch, as opaque
\* values (the code only copies them).
Visuals == <<"styleA", "styleB", "styleC", "styleD">>

\* config.getFrameSettings().fps: 1 in free-tier mode, 2 otherwise.
FpsValues == {1, 2}
\* { typography: {}, styling: {} }
EmptyVisuals == "emptyVisuals"

\* Values uuidv4() can return.
Uuids == {"u1", "u2"}

Detection(t, fi, b, c) ==
    [text |-> t, frameIndex |-> fi, boundingBox |-> b, confidence |-> c]

\* frame-extractor: timestamp = i * (1000 / fps), in milliseconds
FrameTimestamp(i, f) == i * (1000 \div f)

-----------------------------------------------------------------------------
(* PipelineOrchestrator: aggregation *)

NaN == [n |-> 0, d |-> 0]
\* JavaScript a / k for an integer a and an array length k.
DivByLength(a, k) == IF k = 0 THEN NaN ELSE Rat(a, k)

\* frames.flatMap(f => f.detections)
RECURSIVE flatMapDetections(_)
flatMapDetections(fs) ==
    IF fs = <<>> THEN <<>>
    ELSE Head(fs).detections \o flatMapDetections(Tail(fs))

\* One pass of the grouping forEach.  The Map is a sequence of [key, members]
\* entries in insertion order, which is the order Map.entries() iterates in.
GroupStep_KeepEmpty(groups, d) ==
    LET key == normalizeText(d.text) IN
    IF \E i \in 1..Len(groups) : groups[i].key = key
    THEN [i \in 1..Len(groups) |->
            IF groups[i].key = key
            THEN [groups[i] EXCEPT !.members = Append(@, d)]
            ELSE groups[i]]
    ELSE Append(groups, [key |-> key, members |-> <<d>>])
GroupStep(groups, d) ==
    LET key == normalizeText(d.text) IN
    IF key = <<>> THEN groups
    ELSE IF \E i \in 1..Len(groups) : groups[i].key = key
    THEN [i \in 1..Len(groups) |->
            IF groups[i].key = key
            THEN [groups[i] EXCEPT !.members = Append(@, d)]
            ELSE groups[i]]
    ELSE Append(groups, [key |-> key, members |-> <<d>>])

RECURSIVE GroupAll(_, _)
GroupAll(ds, groups) ==
    IF ds = <<>> THEN groups
    ELSE GroupAll(Tail(ds), GroupStep(groups, Head(ds)))

groupByNormalizedText(allDetections) == GroupAll(allDetections, <<>>)

\* if (group.length < 2) continue
IsNoise_Off(group) == Len(group) < 1
IsNoise(group) == Len(group) < 2

\* group.sort((a, b) => a.frameIndex - b.frameIndex)
sortByFrameIndex_None(group) == group
sortByFrameIndex(group) ==
    SortByKeys(group, [i \in 1..Len(group) |-> RatInt(group[i].frameIndex)])

averageBoundingBox_First(boxes) ==
    [x |-> RatInt(boxes[1].x), y |-> RatInt(boxes[1].y),
     width |-> RatInt(boxes[1].width), height |-> RatInt(boxes[1].height)]
averageBoundingBox(boxes) ==
    LET n == Len(boxes)
        sum == [x      |-> SumSeq([i \in 1..n |-> boxes[i].x]),
                y      |-> SumSeq([i \in 1..n |-> boxes[i].y]),
                width  |-> SumSeq([i \in 1..n |-> boxes[i].width]),
                height |-> SumSeq([i \in 1..n |-> boxes[i].height])]
    IN  [x      |-> DivByLength(sum.x, n),
         y      |-> DivByLength(sum.y, n),
         width  |-> DivByLength(sum.width, n),
         height |-> DivByLength(sum.height, n)]

calculateVariance(values) ==
    IF Len(values) = 0 THEN RatInt(0)
    ELSE LET n == Len(values)
             mean == Rat(SumSeq(values), n)
             sq(v) == LET dv == RatSub(RatInt(v), mean) IN RatMul(dv, dv)
         IN  RatDivInt(RatSum([i \in 1..n |-> sq(values[i])]), n)

\* if (totalVariance > 2) type = 'LINEAR'
VarianceThreshold == 2
motionType_Strict(totalVariance) ==
    IF RatLT(totalVariance, RatInt(VarianceThreshold)) THEN "STATIC" ELSE "LINEAR"
motionType(totalVariance) ==
    IF RatLT(RatInt(VarianceThreshold), totalVariance) THEN "LINEAR" ELSE "STATIC"

\* .sort((a, b) => a.time - b.time)
sortByTime_None(keyframes) == keyframes
sortByTime(keyframes) ==
    SortByKeys(keyframes, [i \in 1..Len(keyframes) |-> keyframes[i].time])

calculateMotionPath_Eased(detections, f, baseStartTime) ==
    IF Len(detections) < 2
    THEN [keyframes |-> <<>>, type |-> "POP_IN", variance |-> RatInt(0)]
    ELSE [keyframes |-> sortByTime(
                 [i \in 1..Len(detections) |->
                    [time |-> RatSub(Rat(detections[i].frameIndex, f), baseStartTime),
                     x |-> detections[i].boundingBox.x,
                     y |-> detections[i].boundingBox.y]]),
          type |-> "EASE_IN",
          variance |-> RatInt(0)]
calculateMotionPath(detections, f, baseStartTime) ==
    IF Len(detections) < 2
    THEN [keyframes |-> <<>>, type |-> "STATIC", variance |-> RatInt(0)]
    ELSE LET keyframes == sortByTime(
                 [i \in 1..Len(detections) |->
                    [time |-> RatSub(Rat(detections[i].frameIndex, f), baseStartTime),
                     x |-> detections[i].boundingBox.x,
                     y |-> detections[i].boundingBox.y]])
             xValues == [i \in 1..Len(keyframes) |-> keyframes[i].x]
             yValues == [i \in 1..Len(keyframes) |-> keyframes[i].y]
             totalVariance ==
                 RatAdd(calculateVariance(xValues), calculateVariance(yValues))
         IN  [keyframes |-> keyframes,
              type |-> motionType(totalVariance),
              variance |-> totalVariance]

\* group.reduce((prev, current) =>
\*     (current.confidence > prev.confidence) ? current : prev)
RECURSIVE ReduceBest(_, _)
ReduceBest(prev, rest) ==
    IF rest = <<>> THEN prev
    ELSE ReduceBest(IF Head(rest).confidence > prev.confidence
                    THEN Head(rest) ELSE prev, Tail(rest))

bestDetection_Last(group) == group[Len(group)]
bestDetection(group) == ReduceBest(Head(group), Tail(group))

\* frames.find(f => f.frameIndex === bestDetection.frameIndex)?.visuals
\*     || { typography: {}, styling: {} }
representativeVisuals(fs, best) ==
    LET hits == {i \in 1..Len(fs) : fs[i].frameIndex = best.frameIndex} IN
    IF hits = {} THEN EmptyVisuals
    ELSE fs[CHOOSE i \in hits : \A j \in hits : i <= j].visuals

\* The body of the for-loop for one surviving group.
buildInstance(key, members, fs, f, id) ==
    LET group == sortByFrameIndex(members)
        startFrame == group[1].frameIndex
        endFrame == group[Len(group)].frameIndex
        startTime == Rat(startFrame, f)
        endTime == Rat(endFrame, f)
        duration == RatSub(endTime, startTime)
        best == bestDetection(group)
    IN  [id |-> id,
         text |-> best.text,
         startFrame |-> startFrame,
         endFrame |-> endFrame,
         startTime |-> startTime,
         endTime |-> endTime,
         duration |-> IF duration = RatInt(0) THEN RatInt(1) ELSE duration,
         boundingBox |->
             averageBoundingBox([i \in 1..Len(group) |-> group[i].boundingBox]),
         motionPath |-> calculateMotionPath(group, f, startTime),
         visuals |-> representativeVisuals(fs, best),
         detectionConfidence |-> best.confidence]

\* for (const [key, group] of groups.entries()) { ... }; ids are the values
\* the successive uuidv4() calls return.
RECURSIVE BuildInstances(_, _, _, _)
BuildInstances(groups, fs, f, ids) ==
    IF groups = <<>> THEN <<>>
    ELSE IF IsNoise(Head(groups).members)
    THEN BuildInstances(Tail(groups), fs, f, ids)
    ELSE <<buildInstance(Head(groups).key, Head(groups).members, fs, f, Head(ids))>>
         \o BuildInstances(Tail(groups), fs, f, Tail(ids))

aggregateDetections(fs, f, ids) ==
    BuildInstances(groupByNormalizedText(flatMapDetections(fs)), fs, f, ids)

\* Number of uuidv4() calls aggregateDetections makes on fs.
SurvivingGroups(fs) ==
    LET gs == groupByNormalizedText(flatMapDetections(fs)) IN
    Cardinality({i \in 1..Len(gs) : ~IsNoise(gs[i].members)})

-----------------------------------------------------------------------------
(* MotionTrackerService *)

\* String.replace(/\s+/g, ' '): every run of whitespace becomes one space.
RECURSIVE CollapseSpaces(_)
CollapseSpaces(t) ==
    IF t = <<>> THEN <<>>
    ELSE IF IsSpaceChar(Head(t))
    THEN <<Space>> \o CollapseSpaces(TrimLeft(t))
    ELSE <<Head(t)>> \o CollapseSpaces(Tail(t))

\* MotionTrackerService.normalizeText
trackerNormalizeText(text) == CollapseSpaces(Trim(ToLowerCase(text)))

Min3(a, b, c) ==
    IF a <= b /\ a <= c THEN a ELSE IF b <= c THEN b ELSE c

\* matrix[i][j] of levenshteinDistance: the distance between the first i
\* characters of b and the first j characters of a.
RECURSIVE LevCell(_, _, _, _)
LevCell(a, b, i, j) ==
    IF i = 0 THEN j
    ELSE IF j = 0 THEN i
    ELSE IF b[i] = a[j] THEN LevCell(a, b, i - 1, j - 1)
    ELSE Min3(LevCell(a, b, i - 1, j - 1) + 1,
              LevCell(a, b, i, j - 1) + 1,
              LevCell(a, b, i - 1, j) + 1)

levenshteinDistance(a, b) == LevCell(a, b, Len(b), Len(a))

textSimilarity(a, b) ==
    LET longer == IF Len(a) > Len(b) THEN a ELSE b
        shorter == IF Len(a) > Len(b) THEN b ELSE a
    IN  IF Len(longer) = 0 THEN RatInt(1)
        ELSE Rat(Len(longer) - levenshteinDistance(longer, shorter), Len(longer))

\* if (this.textSimilarity(key, normalizedText) > 0.8)
SimilarityThreshold == Rat(8, 10)
IsSimilar(key, normalizedText) ==
    RatLT(SimilarityThreshold, textSimilarity(key, normalizedText))

\* One detection of one frame in groupSimilarText.
TrackerGroupStep(groups, frame, detection) ==
    LET normalizedText == trackerNormalizeText(detection.text)
        hits == {i \in 1..Len(groups) : IsSimilar(groups[i].key, normalizedText)}
        \* matchedKey || normalizedText: an empty matched key is falsy
        groupKey == IF hits = {} THEN normalizedText
                    ELSE LET k == groups[CHOOSE i \in hits : \A j \in hits : i <= j].key
                         IN  IF k = <<>> THEN normalizedText ELSE k
        entry == [text |-> detection.text,
                  timestamp |-> frame.timestamp,
                  x |-> RatAdd(RatInt(detection.boundingBox.x),
                               Rat(detection.boundingBox.width, 2)),
                  y |-> RatAdd(RatInt(detection.boundingBox.y),
                               Rat(detection.boundingBox.height, 2))]
    IN  IF \E i \in 1..Len(groups) : groups[i].key = groupKey
        THEN [i \in 1..Len(groups) |->
                IF groups[i].key = groupKey
                THEN [groups[i] EXCEPT !.members = Append(@, entry)]
                ELSE groups[i]]
        ELSE Append(groups, [key |-> groupKey, members |-> <<entry>>])

RECURSIVE TrackerGroupFrame(_, _, _)
TrackerGroupFrame(groups, frame, ds) ==
    IF ds = <<>> THEN groups
    ELSE TrackerGroupFrame(TrackerGroupStep(groups, frame, Head(ds)), frame, Tail(ds))

RECURSIVE TrackerGroupAll(_, _)
TrackerGroupAll(groups, visionResults) ==
    IF visionResults = <<>> THEN groups
    ELSE TrackerGroupAll(
            TrackerGroupFrame(groups, Head(visionResults), Head(visionResults).detections),
            Tail(visionResults))

groupSimilarText(visionResults) == TrackerGroupAll(<<>>, visionResults)

\* detections.sort((a, b) => a.timestamp - b.timestamp)
sortByTimestamp_None(detections) == detections
sortByTimestamp(detections) ==
    SortByKeys(detections,
               [i \in 1..Len(detections) |-> RatInt(detections[i].timestamp)])

\* if (totalDisplacement < 5) return null
MinDisplacement == 5
\* MotionPath | null: null is the empty sequence, a path p is <<p>>.
NoPath == <<>>

\* MotionTrackerService.calculateMotionPath; the easing field of the path is
\* not part of this record.
trackerCalculateMotionPath_NoThreshold(detections) ==
    IF Len(detections) < 2 THEN NoPath
    ELSE LET sorted == sortByTimestamp(detections)
         IN  <<[keyframes |-> [i \in 1..Len(sorted) |->
                                  [time |-> sorted[i].timestamp,
                                   x |-> sorted[i].x,
                                   y |-> sorted[i].y]],
                 duration |-> sorted[Len(sorted)].timestamp - sorted[1].timestamp]>>
trackerCalculateMotionPath(detections) ==
    IF Len(detections) < 2 THEN NoPath
    ELSE LET sorted == sortByTimestamp(detections)
             startPos == sorted[1]
             endPos == sorted[Len(sorted)]
             dx == RatSub(endPos.x, startPos.x)
             dy == RatSub(endPos.y, startPos.y)
             \* sqrt(dx^2 + dy^2) < 5  iff  dx^2 + dy^2 < 25
             squared == RatAdd(RatMul(dx, dx), RatMul(dy, dy))
         IN  IF RatLT(squared, RatInt(MinDisplacement * MinDisplacement))
             THEN NoPath
             ELSE <<[keyframes |-> [i \in 1..Len(sorted) |->
                                      [time |-> sorted[i].timestamp,
                                       x |-> sorted[i].x,
                                       y |-> sorted[i].y]],
                     duration |-> endPos.timestamp - startPos.timestamp]>>

\* The loop of trackTextMotion over textGroups.entries(); the returned Map is
\* a sequence of [text, path] entries in insertion order.
RECURSIVE TrackGroups(_)
TrackGroups(groups) ==
    IF groups = <<>> THEN <<>>
    ELSE LET g == Head(groups)
             path == trackerCalculateMotionPath(g.members)
         IN  IF Len(g.members) < 2 \/ path = NoPath
             THEN TrackGroups(Tail(groups))
             ELSE <<[text |-> g.key, path |-> path[1]]>> \o TrackGroups(Tail(groups))

trackTextMotion(visionResults) == TrackGroups(groupSimilarText(visionResults))

-----------------------------------------------------------------------------
(* MotionTrackerService.determineEasing *)

\* JavaScript numbers that are not finite: 0 / 0 is NaN, a / 0 is Infinity
\* for a > 0.  Only non-negative values occur below.
Infinity == [n |-> 1, d |-> 0]
IsNaN(a) == a.d = 0 /\ a.n = 0
IsInfinity(a) == a.d = 0 /\ a.n # 0

JsDiv(a, b) ==
    IF b.n = 0 THEN (IF a.n = 0 THEN NaN ELSE Infinity)
    ELSE Rat(a.n * b.d, a.d * b.n)
JsAdd(a, b) ==
    IF IsNaN(a) \/ IsNaN(b) THEN NaN
    ELSE IF IsInfinity(a) \/ IsInfinity(b) THEN Infinity
    ELSE RatAdd(a, b)
JsDivInt(a, k) == IF a.d = 0 THEN a ELSE RatDivInt(a, k)
\* a * r for a finite r > 0
JsScale(a, r) == IF a.d = 0 THEN a ELSE RatMul(a, r)
JsLT(a, b) ==
    IF IsNaN(a) \/ IsNaN(b) \/ IsInfinity(a) THEN FALSE
    ELSE IF IsInfinity(b) THEN TRUE
    ELSE RatLT(a, b)
\* Math.abs(a - b)
JsAbsDiff(a, b) ==
    IF IsNaN(a) \/ IsNaN(b) \/ (IsInfinity(a) /\ IsInfinity(b)) THEN NaN
    ELSE IF IsInfinity(a) \/ IsInfinity(b) THEN Infinity
    ELSE LET dv == RatSub(a, b) IN Rat(Abs(dv.n), dv.d)

RECURSIVE JsSum(_)
JsSum(s) == IF s = <<>> THEN RatInt(0) ELSE JsAdd(Head(s), JsSum(Tail(s)))

\* Math.sqrt of a rational whose numerator and denominator are squares.
ISqrt(n) == CHOOSE k \in 0..n : k * k <= n /\ (k + 1) * (k + 1) > n
Sqrt(a) == Rat(ISqrt(a.n), ISqrt(a.d))

\* The pushes of the velocities loop: distance / dt per step.
stepVelocity(prev, cur) ==
    LET dt == RatInt(cur.time - prev.time)
        dx == RatSub(cur.x, prev.x)
        dy == RatSub(cur.y, prev.y)
        distance == Sqrt(RatAdd(RatMul(dx, dx), RatMul(dy, dy)))
    IN  JsDiv(distance, dt)

\* The three comparisons on the two half averages.
easingFromAverages_Swapped(firstHalfAvg, secondHalfAvg) ==
    IF JsLT(firstHalfAvg, JsScale(secondHalfAvg, Rat(7, 10))) THEN "ease-out"
    ELSE IF JsLT(secondHalfAvg, JsScale(firstHalfAvg, Rat(7, 10))) THEN "ease-in"
    ELSE IF JsLT(JsAbsDiff(firstHalfAvg, secondHalfAvg),
                 JsScale(firstHalfAvg, Rat(3, 10))) THEN "linear"
    ELSE "ease-in-out"
easingFromAverages(firstHalfAvg, secondHalfAvg) ==
    IF JsLT(firstHalfAvg, JsScale(secondHalfAvg, Rat(7, 10))) THEN "ease-in"
    ELSE IF JsLT(secondHalfAvg, JsScale(firstHalfAvg, Rat(7, 10))) THEN "ease-out"
    ELSE IF JsLT(JsAbsDiff(firstHalfAvg, secondHalfAvg),
                 JsScale(firstHalfAvg, Rat(3, 10))) THEN "linear"
    ELSE "ease-in-out"

determineEasing(keyframes) ==
    IF Len(keyframes) < 3 THEN "linear"
    ELSE LET velocities == [i \in 1..(Len(keyframes) - 1) |->
                               stepVelocity(keyframes[i], keyframes[i + 1])]
             half == Len(velocities) \div 2
             firstHalfAvg == JsDivInt(JsSum(SubSeq(velocities, 1, half)), half)
             secondHalfAvg ==
                 JsDivInt(JsSum(SubSeq(velocities, half + 1, Len(velocities))),
                          Len(velocities) - half)
         IN  easingFromAverages(firstHalfAvg, secondHalfAvg)

-----------------------------------------------------------------------------
(* StructureAnalyzerService (OpenRouter variant) *)

\* What callC and JSON.parse make of one collaborator call:
\*   [kind |-> "error"]      fetch rejects or the status is not ok: callC throws
\*   [kind |-> "malformed"]  callC returns text that JSON.parse rejects
\*   [kind |-> "json", items |-> s]  parsed; s is the array the code iterates
\*                                   (the design system: the parsed object)
ErrorResponse == [kind |-> "error"]
MalformedResponse == [kind |-> "malformed"]
JsonResponse(v) == [kind |-> "json", items |-> v]

\* A settled or pending promise.
Pending == [state |-> "pending", value |-> <<>>, failure |-> "none", silent |-> FALSE]
Idle == [state |-> "idle", value |-> <<>>, failure |-> "none", silent |-> FALSE]
Fulfilled(v, failure) ==
    [state |-> "fulfilled", value |-> v, failure |-> failure, silent |-> FALSE]
Rejected == [state |-> "rejected", value |-> <<>>, failure |-> "error", silent |-> FALSE]

\* Map.set on a Map that is only read with get(): a function on its keys.
MapSet(m, k, v) == [x \in (DOMAIN m) \cup {k} |-> IF x = k THEN v ELSE m[x]]

\* JavaScript truthiness of an optional string / number field of an object.
TruthyString(item, f) == f \in DOMAIN item /\ item[f] # ""
TruthyNumber(item, f) == f \in DOMAIN item /\ item[f] # 0

Sides(n) == [top |-> n, right |-> n, bottom |-> n, left |-> n]

\* items.forEach of analyzeLayout
RECURSIVE LayoutItems(_, _)
LayoutItems(items, layoutMap) ==
    IF items = <<>> THEN layoutMap
    ELSE LET item == Head(items) IN
         LayoutItems(Tail(items),
            IF TruthyString(item, "id") /\ TruthyString(item, "anchor")
            THEN MapSet(layoutMap, item.id,
                    [anchor |-> item.anchor,
                     alignment |-> IF "alignment" \in DOMAIN item
                                   THEN item.alignment ELSE "undefined",
                     padding |-> IF "padding" \in DOMAIN item
                                 THEN item.padding ELSE Sides(0),
                     margin |-> IF "margin" \in DOMAIN item
                                THEN item.margin ELSE Sides(0),
                     zIndex |-> IF TruthyNumber(item, "zIndex")
                                THEN item.zIndex ELSE 1])
            ELSE layoutMap)

\* analyzeLayout after callC returned or threw
analyzeLayout(response) ==
    IF response.kind = "error" THEN Rejected
    ELSE IF response.kind = "malformed" THEN Fulfilled(<<>>, "malformed")
    ELSE Fulfilled(LayoutItems(response.items, <<>>), "none")

\* items.forEach of classifyRoles
RECURSIVE RoleItems(_, _)
RoleItems(items, roleMap) ==
    IF items = <<>> THEN roleMap
    ELSE LET item == Head(items) IN
         RoleItems(Tail(items),
            IF TruthyString(item, "id") /\ TruthyString(item, "role")
            THEN MapSet(roleMap, item.id, item.role)
            ELSE roleMap)

classifyRoles(response) ==
    IF response.kind = "error" THEN Rejected
    ELSE IF response.kind = "malformed" THEN Fulfilled(<<>>, "malformed")
    ELSE Fulfilled(RoleItems(response.items, <<>>), "none")

\* The object generateDesignSystem returns when JSON.parse throws.
ParseFailureDesignSystem ==
    [fontsPrimary |-> "Inter", fontsSecondary |-> "Arial",
     colorsPrimary |-> "#ffffff", colorsSecondary |-> "#cccccc",
     colorsAccent |-> "#0080ff", colorsBackground |-> "#000000",
     colorsText |-> "#ffffff",
     spacingBase |-> 8, spacingScale |-> <<8, 16, 24, 32, 48>>,
     timingAvgDurationPerWord |-> RatInt(500), timingMinDuration |-> RatInt(1000)]

generateDesignSystem(response) ==
    IF response.kind = "error" THEN Rejected
    ELSE IF response.kind = "malformed"
    THEN Fulfilled(ParseFailureDesignSystem, "malformed")
    ELSE Fulfilled(response.items, "none")

\* items.forEach of generateVariations: the Map is iterated later, so it is a
\* sequence of [id, variations] entries in insertion order.
VariationSet(m, id, vs) ==
    IF \E i \in 1..Len(m) : m[i].id = id
    THEN [i \in 1..Len(m) |-> IF m[i].id = id THEN [id |-> id, variations |-> vs] ELSE m[i]]
    ELSE Append(m, [id |-> id, variations |-> vs])

RECURSIVE VariationItems(_, _)
VariationItems(items, variationMap) ==
    IF items = <<>> THEN variationMap
    ELSE LET item == Head(items) IN
         VariationItems(Tail(items),
            IF TruthyString(item, "id") /\ "variations" \in DOMAIN item
            THEN VariationSet(variationMap, item.id, item.variations)
            ELSE variationMap)

\* generateVariations after callC returned or threw (hooksAndCtas non-empty)
generateVariations(response) ==
    IF response.kind = "error" THEN Rejected
    ELSE IF response.kind = "malformed" THEN Fulfilled(<<>>, "malformed")
    ELSE Fulfilled(VariationItems(response.items, <<>>), "none")

-----------------------------------------------------------------------------
(* PipelineOrchestrator.processVideo: enrichment *)

Branches == {"layout", "role", "design"}

DefaultLayout ==
    [anchor |-> "center", alignment |-> "center", zIndex |-> 1,
     padding |-> Sides(0), margin |-> Sides(0)]

\* consolidated.map(c => ({ ...c, role: role || 'BODY', layout: layout || {...} }))
\* Object spread { ...c, ...extra }
Spread_Partial(c, extra) ==
    [f \in {"id", "text"} \cup (DOMAIN extra) |->
        IF f \in DOMAIN extra THEN extra[f] ELSE c[f]]
Spread(c, extra) ==
    [f \in (DOMAIN c) \cup (DOMAIN extra) |->
        IF f \in DOMAIN extra THEN extra[f] ELSE c[f]]

enrichOverlay_NoDefault(c, layoutMap, roleMap) ==
    Spread(c,
        [role |-> IF c.id \in DOMAIN roleMap THEN roleMap[c.id] ELSE "HOOK",
         layout |-> IF c.id \in DOMAIN layoutMap THEN layoutMap[c.id]
                    ELSE [DefaultLayout EXCEPT !.anchor = "top"]])
enrichOverlay(c, layoutMap, roleMap) ==
    Spread(c,
        [role |-> IF c.id \in DOMAIN roleMap THEN roleMap[c.id] ELSE "BODY",
         layout |-> IF c.id \in DOMAIN layoutMap THEN layoutMap[c.id]
                    ELSE DefaultLayout])

\* rawDesignSystem?.group?.field || fallback
StringOr(raw, f, fallback) == IF TruthyString(raw, f) THEN raw[f] ELSE fallback
NumberOr(raw, f, fallback) == IF TruthyNumber(raw, f) THEN raw[f] ELSE fallback
RatOr(raw, f, fallback) ==
    IF f \in DOMAIN raw /\ raw[f].n # 0 THEN raw[f] ELSE fallback
ArrayOr(raw, f, fallback) == IF f \in DOMAIN raw THEN raw[f] ELSE fallback

buildDesignSystem(raw) ==
    [fontsPrimary |-> StringOr(raw, "fontsPrimary", "Inter"),
     fontsSecondary |-> StringOr(raw, "fontsSecondary", "Inter"),
     colorsPrimary |-> StringOr(raw, "colorsPrimary", "#ffffff"),
     colorsSecondary |-> StringOr(raw, "colorsSecondary", "#000000"),
     colorsAccent |-> StringOr(raw, "colorsAccent", "#FF0000"),
     colorsBackground |-> StringOr(raw, "colorsBackground", "#000000"),
     colorsText |-> StringOr(raw, "colorsText", "#ffffff"),
     spacingBase |-> NumberOr(raw, "spacingBase", 4),
     spacingScale |-> ArrayOr(raw, "spacingScale", <<4, 8, 16, 24, 32>>),
     timingAvgDurationPerWord |-> RatOr(raw, "timingAvgDurationPerWord", Rat(4, 10)),
     timingMinDuration |-> RatOr(raw, "timingMinDuration", RatInt(1))]

\* if (!primaryFont) warnings.push(...)
buildWarnings(raw) ==
    IF TruthyString(raw, "fontsPrimary") THEN <<>>
    ELSE <<"Could not detect font, using default 'Inter'">>

\* enrichedOverlays.filter(o => o.role === 'HOOK' || o.role === 'CTA')
\*     .map(o => ({ id: o.id, text: o.text, role: o.role }))
hookAndCtas(overlays) ==
    LET picked == SelectSeq(overlays, LAMBDA o : o.role = "HOOK" \/ o.role = "CTA") IN
    [i \in 1..Len(picked) |->
        [id |-> picked[i].id, text |-> picked[i].text, role |-> picked[i].role]]

\* await Promise.all([...]) resumes once every promise is fulfilled and
\* throws as soon as one is rejected.
JoinReady_Race(br) == \E b \in Branches : br[b].state = "fulfilled"
JoinReady(br) == \A b \in Branches : br[b].state = "fulfilled"
JoinFailed(br) == \E b \in Branches : br[b].state = "rejected"

NoResult == <<>>
NotMerged == <<>>

\* No call of analyzeVideoFrames is in progress.
VisionIdle ==
    [state |-> "idle", variant |-> "none", input |-> <<>>, i |-> 0,
     slots |-> <<>>, results |-> <<>>, failures |-> <<>>]

\* The editor store as created: no project, nothing in flight.
EditorIdle ==
    [project |-> <<>>, segments |-> <<>>, hasUnsavedChanges |-> FALSE,
     isReRendering |-> FALSE, calls |-> <<>>, saves |-> 0]

OtherIdle == vision = VisionIdle /\ editor = EditorIdle

PipeIdle ==
    /\ branch = [b \in Branches |-> Idle]
    /\ variation = Idle
    /\ merged = NotMerged
    /\ result = NoResult

-----------------------------------------------------------------------------
(* Specification of the two consolidation entry points on one batch *)

NewFrame(fi, f, v) ==
    [frameIndex |-> fi, timestamp |-> FrameTimestamp(fi, f),
     detections |-> <<>>, visuals |-> v]

\* The frame analyses of the specification's examples: the same text at the
\* same box in frames 0, 1, 2, and at x = 10, 20, 30, 40 in frames 0..3.
ExampleFrame(fi, f, b) ==
    [frameIndex |-> fi, timestamp |-> FrameTimestamp(fi, f),
     detections |-> <<Detection(<<"H", "i">>, fi, b, 9)>>,
     visuals |-> Visuals[fi + 1]]

StaticExample(f) ==
    [i \in 1..3 |-> ExampleFrame(i - 1, f, Box(10, 80, 30, 8))]
MovingExample(f) ==
    [i \in 1..4 |-> ExampleFrame(i - 1, f, Box(10 * i, 80, 30, 8))]

\* A text that first appears in frame 1 and has moved by frame 2.
LateExample(f) ==
    <<ExampleFrame(1, f, Box(10, 80, 30, 8)), ExampleFrame(2, f, Box(20, 80, 32, 10))>>

Init ==
    /\ pc = "input"
    /\ fps \in FpsValues
    /\ frames \in {<<>>, StaticExample(fps), MovingExample(fps), LateExample(fps)}
    /\ instances = <<>>
    /\ motionPaths = <<>>
    /\ PipeIdle
    /\ OtherIdle

NumDetections(fs) == Len(flatMapDetections(fs))

\* The vision service reports one more frame analysis.
AddFrame ==
    /\ pc = "input"
    /\ Len(frames) < MaxFrames
    /\ NumDetections(frames) < MaxDet
    /\ \E fi \in 0..MaxFrameIndex :
          frames' = Append(frames, NewFrame(fi, fps, Visuals[Len(frames) + 1]))
    /\ UNCHANGED <<pc, fps, instances, motionPaths, pipeVars, otherVars>>

\* The newest frame analysis reports one more detection (analyzeFrame stamps
\* every detection with the index of its frame).
AddDetection ==
    /\ pc = "input"
    /\ frames # <<>>
    /\ NumDetections(frames) < MaxDet
    /\ \E t \in Texts, b \in Boxes, c \in Confidences :
          LET n == Len(frames)
              d == Detection(t, frames[n].frameIndex, b, c)
          IN  frames' = [frames EXCEPT ![n].detections = Append(@, d)]
    /\ UNCHANGED <<pc, fps, instances, motionPaths, pipeVars, otherVars>>

IdSeqs(n) == {s \in [1..n -> Uuids] : \A i, j \in 1..n : i # j => s[i] # s[j]}

\* const consolidated = this.aggregateDetections(rawAnalysis, fps)
Aggregate ==
    /\ pc = "input"
    /\ \E ids \in IdSeqs(SurvivingGroups(frames)) :
          instances' = aggregateDetections(frames, fps, ids)
    /\ pc' = "aggregated"
    /\ UNCHANGED <<frames, fps, motionPaths, pipeVars, otherVars>>

\* const motionPaths = await motionTrackerService.trackTextMotion(visionResults)
Track ==
    /\ pc = "input"
    /\ motionPaths' = trackTextMotion(frames)
    /\ pc' = "tracked"
    /\ UNCHANGED <<frames, fps, instances, pipeVars, otherVars>>

Next == AddFrame \/ AddDetection \/ Aggregate \/ Track

Spec == Init /\ [][Next]_vars

-----------------------------------------------------------------------------
(* Specification of processVideo with its four collaborators *)

\* What visionService.analyzeVideoFrames can return: frame i carries
\* frameIndex i.  Two texts seen in two frames each, the static example, and
\* a single flash.
VisionFrame(i, f, ds) ==
    [frameIndex |-> i, timestamp |-> FrameTimestamp(i, f),
     detections |-> ds, visuals |-> Visuals[i + 1]]

TwoTexts(f) ==
    [i \in 1..2 |->
        VisionFrame(i - 1, f,
            <<Detection(<<"H", "i">>, i - 1, Box(10, 80, 30, 8), 9),
              Detection(<<"Y", "o">>, i - 1, Box(20, 80, 32, 10), 4)>>)]

Flash(f) ==
    <<VisionFrame(0, f, <<Detection(<<"H", "i">>, 0, Box(10, 80, 30, 8), 9)>>)>>

PipeInputs(f) == {TwoTexts(f), StaticExample(f), MovingExample(f), Flash(f)}

InstanceIds(cs) == [i \in 1..Len(cs) |-> cs[i].id]

\* Answers of the layout collaborator to a request about the instances cs.
LayoutResponses(cs) ==
    LET ids == InstanceIds(cs) IN
    {ErrorResponse, MalformedResponse, JsonResponse(<<>>),
     JsonResponse([i \in 1..Len(ids) |->
        [id |-> ids[i], anchor |-> "top", alignment |-> "left",
         padding |-> Sides(4), zIndex |-> 2]]),
     JsonResponse([i \in 1..Len(ids) |->
        IF i = 1 THEN [id |-> ids[i], anchor |-> "bottom", zIndex |-> 0]
        ELSE [id |-> ids[i], alignment |-> "right"]])}

\* Answers of the role collaborator.
RoleResponses(cs) ==
    LET ids == InstanceIds(cs) IN
    {ErrorResponse, MalformedResponse, JsonResponse(<<>>),
     JsonResponse([i \in 1..Len(ids) |-> [id |-> ids[i], role |-> "CTA"]]),
     JsonResponse([i \in 1..Len(ids) |->
        IF i = 1 THEN [id |-> ids[i], role |-> "HOOK"] ELSE [id |-> ids[i]]]),
     JsonResponse([i \in 1..Len(ids) |-> [id |-> ids[i], role |-> "hook"]])}

\* Answers of the design-system collaborator.
DesignResponses ==
    {ErrorResponse, MalformedResponse, JsonResponse(<<>>),
     JsonResponse([fontsPrimary |-> "Roboto", fontsSecondary |-> "Lato",
                   colorsPrimary |-> "#111111", colorsSecondary |-> "#222222",
                   colorsAccent |-> "#333333", colorsBackground |-> "#444444",
                   colorsText |-> "#555555",
                   spacingBase |-> 6, spacingScale |-> <<6, 12>>,
                   timingAvgDurationPerWord |-> Rat(3, 10),
                   timingMinDuration |-> RatInt(2)]),
     JsonResponse([colorsBackground |-> "#444444", spacingBase |-> 0])}

\* Answers of the variation collaborator to a request about hooks.
VariationTexts == <<"alt 1", "alt 2", "alt 3">>
VariationResponses(hooks) ==
    {ErrorResponse, MalformedResponse, JsonResponse(<<>>),
     JsonResponse([i \in 1..Len(hooks) |->
        [id |-> hooks[i].id, variations |-> VariationTexts]]),
     JsonResponse(<<[id |-> "unknown-id", variations |-> VariationTexts]>>)}

ProjectIds == {"p1", "p2"}

PipeInit ==
    /\ pc = "start"
    /\ fps \in FpsValues
    /\ frames = <<>>
    /\ instances = <<>>
    /\ motionPaths = <<>>
    /\ PipeIdle
    /\ OtherIdle

\* const rawAnalysis = await visionService.analyzeVideoFrames(frames)
PVVision ==
    /\ pc = "start"
    /\ frames' \in PipeInputs(fps)
    /\ pc' = "analysed"
    /\ UNCHANGED <<fps, instances, motionPaths, pipeVars, otherVars>>

\* The synchronous run from the aggregation to the await of Promise.all: the
\* three analyzer calls each run up to their fetch.
PVFanOut ==
    /\ pc = "analysed"
    /\ \E ids \in IdSeqs(SurvivingGroups(frames)) :
          instances' = aggregateDetections(frames, fps, ids)
    /\ branch' = [b \in Branches |-> Pending]
    /\ pc' = "awaitAll"
    /\ UNCHANGED <<frames, fps, motionPaths, variation, merged, result, otherVars>>

Settle(b, response) ==
    CASE b = "layout" -> analyzeLayout(response)
      [] b = "role" -> classifyRoles(response)
      [] b = "design" -> generateDesignSystem(response)

ResponsesOf(b) ==
    CASE b = "layout" -> LayoutResponses(instances)
      [] b = "role" -> RoleResponses(instances)
      [] b = "design" -> DesignResponses

\* The collaborator of branch b answers (or its request fails) and the
\* analyzer method runs to its return or throw.
Respond(b) ==
    /\ branch[b].state = "pending"
    /\ ~branch[b].silent
    /\ \E response \in ResponsesOf(b) :
          branch' = [branch EXCEPT ![b] = Settle(b, response)]
    /\ UNCHANGED <<pc, frames, fps, instances, motionPaths, variation, merged, result, otherVars>>

\* The collaborator of branch b never answers: fetch is called without a
\* signal or timeout, so the promise stays pending.
NeverRespond(b) ==
    /\ branch[b].state = "pending"
    /\ ~branch[b].silent
    /\ branch' = [branch EXCEPT ![b].silent = TRUE]
    /\ UNCHANGED <<pc, frames, fps, instances, motionPaths, variation, merged, result, otherVars>>

\* Promise.all rejects: processVideo has no try/catch, so it rejects too.
PVJoinReject ==
    /\ pc = "awaitAll"
    /\ JoinFailed(branch)
    /\ pc' = "rejected"
    /\ UNCHANGED <<frames, fps, instances, motionPaths, pipeVars, otherVars>>

\* Promise.all resolves: defaults, enrichment, and the call of
\* generateVariations, which returns an empty Map at once for no hooks/CTAs.
PVMerge ==
    /\ pc = "awaitAll"
    /\ ~JoinFailed(branch)
    /\ JoinReady(branch)
    /\ LET raw == branch["design"].value
           overlays == [i \in 1..Len(instances) |->
               enrichOverlay(instances[i], branch["layout"].value, branch["role"].value)]
       IN  /\ merged' = [overlays |-> overlays,
                         designSystem |-> buildDesignSystem(raw),
                         warnings |-> buildWarnings(raw),
                         hookAndCtas |-> hookAndCtas(overlays)]
           /\ variation' = IF hookAndCtas(overlays) = <<>>
                           THEN Fulfilled(<<>>, "none") ELSE Pending
    /\ pc' = "awaitVariations"
    /\ UNCHANGED <<frames, fps, instances, motionPaths, branch, result, otherVars>>

VariationRespond ==
    /\ variation.state = "pending"
    /\ ~variation.silent
    /\ \E response \in VariationResponses(merged.hookAndCtas) :
          variation' = generateVariations(response)
    /\ UNCHANGED <<pc, frames, fps, instances, motionPaths, branch, merged, result, otherVars>>

VariationNeverRespond ==
    /\ variation.state = "pending"
    /\ ~variation.silent
    /\ variation' = [variation EXCEPT !.silent = TRUE]
    /\ UNCHANGED <<pc, frames, fps, instances, motionPaths, branch, merged, result, otherVars>>

PVVariationReject ==
    /\ pc = "awaitVariations"
    /\ variation.state = "rejected"
    /\ pc' = "rejected"
    /\ UNCHANGED <<frames, fps, instances, motionPaths, pipeVars, otherVars>>

\* Array.from(variationMap.entries()).map(([segmentId, vars]) => ({...}))
variationsOf(variationMap) ==
    [i \in 1..Len(variationMap) |->
        [segmentId |-> variationMap[i].id,
         variations |-> variationMap[i].variations]]

\* return { projectId: uuidv4(), overlays, designSystem, variations, warnings }
PVFinish ==
    /\ pc = "awaitVariations"
    /\ variation.state = "fulfilled"
    /\ \E projectId \in ProjectIds :
          result' = [projectId |-> projectId,
                     overlays |-> merged.overlays,
                     designSystem |-> merged.designSystem,
                     variations |-> variationsOf(variation.value),
                     warnings |-> merged.warnings]
    /\ pc' = "done"
    /\ UNCHANGED <<frames, fps, instances, motionPaths, branch, variation, merged, otherVars>>

\* One whole run of processVideo on the analysis fs, given the uuids drawn
\* for the instances and for the project, and the values the collaborators'
\* methods resolve to (generateVariations is asked only about hooks and CTAs
\* and returns an empty Map without a request when there are none).
processVideoRun(fs, f, ids, layoutMap, roleMap, raw, variationMap, projectId) ==
    LET consolidated == aggregateDetections(fs, f, ids)
        overlays == [i \in 1..Len(consolidated) |->
                        enrichOverlay(consolidated[i], layoutMap, roleMap)]
        vm == IF hookAndCtas(overlays) = <<>> THEN <<>> ELSE variationMap
    IN  [projectId |-> projectId,
         overlays |-> overlays,
         designSystem |-> buildDesignSystem(raw),
         variations |-> variationsOf(vm),
         warnings |-> buildWarnings(raw)]

PipeNext ==
    \/ PVVision
    \/ PVFanOut
    \/ \E b \in Branches : Respond(b)
    \/ \E b \in Branches : NeverRespond(b)
    \/ PVJoinReject
    \/ PVMerge
    \/ VariationRespond
    \/ VariationNeverRespond
    \/ PVVariationReject
    \/ PVFinish

PipeSpec == PipeInit /\ [][PipeNext]_vars

\* The steps that follow the fan-out.
PipeProgress ==
    \/ \E b \in Branches : Respond(b)
    \/ \E b \in Branches : NeverRespond(b)
    \/ PVJoinReject
    \/ PVMerge
    \/ VariationRespond
    \/ VariationNeverRespond
    \/ PVVariationReject
    \/ PVFinish

\* Once the three calls are in flight, every step that is possible is
\* eventually taken: the event loop runs every continuation whose promise
\* has settled, and a collaborator either answers or has been fixed as one
\* that never answers.
FairPipeSpec == PipeSpec /\ WF_vars(PVVision) /\ WF_vars(PipeProgress)

-----------------------------------------------------------------------------
(* Specification of aggregateDetections and its helpers on unvalidated input *)

\* vision.ts copies d.text and d.boundingBox from the model's JSON without
\* checking them, so a detection can lack either field (the field is then
\* undefined).
RawTexts == { <<"H", "i">>, <<"h", "i", "!">> }
RawBox == Box(10, 80, 30, 8)
RawDetections(fi) ==
    {Detection(t, fi, RawBox, 9) : t \in RawTexts}
        \cup {[text |-> t, frameIndex |-> fi, confidence |-> 9] : t \in RawTexts}
        \cup {[frameIndex |-> fi, boundingBox |-> RawBox, confidence |-> 9]}

\* The accesses of aggregateDetections that throw a TypeError:
\* text.trim() on an undefined text during grouping (every detection is
\* normalized), and d.boundingBox.x on an undefined boundingBox in
\* calculateMotionPath (only groups that pass the noise filter get there).
aggregateThrows(fs) ==
    LET all == flatMapDetections(fs) IN
    IF \E i \in 1..Len(all) : "text" \notin DOMAIN all[i] THEN TRUE
    ELSE LET gs == groupByNormalizedText(all) IN
         \E g \in 1..Len(gs) :
            /\ ~IsNoise(gs[g].members)
            /\ \E m \in 1..Len(gs[g].members) :
                  "boundingBox" \notin DOMAIN gs[g].members[m]

\* Lists of boxes and pairs of detected strings for direct calls.
BoxLists == {<<>>} \cup {<<b>> : b \in Boxes} \cup {<<a, b>> : a, b \in Boxes}
SpacedTexts ==
    { <<"H", "i", " ", "Y", "o">>, <<"h", "i", " ", "y", "o">>,
      <<"h", "i", " ", " ", "y", "o">>, <<" ", "h", "i", " ", "y", "o", "!">>,
      <<"h", "i", " ", "!", " ", "y", "o">>, <<"Y", "o">>, <<"!">> }

CallInit ==
    /\ pc = "raw"
    /\ fps \in FpsValues
    /\ frames = <<>>
    /\ instances = <<>>
    /\ motionPaths = <<>>
    /\ PipeIdle
    /\ OtherIdle

\* analyzeVideoFrames returns one more frame analysis; frame i has index i.
RawAddFrame ==
    /\ pc = "raw"
    /\ Len(frames) < MaxFrames
    /\ frames' = Append(frames, VisionFrame(Len(frames), fps, <<>>))
    /\ UNCHANGED <<pc, fps, instances, motionPaths, pipeVars, otherVars>>

RawAddDetection ==
    /\ pc = "raw"
    /\ frames # <<>>
    /\ NumDetections(frames) < MaxDet
    /\ \E d \in RawDetections(frames[Len(frames)].frameIndex) :
          frames' = [frames EXCEPT ![Len(frames)].detections = Append(@, d)]
    /\ UNCHANGED <<pc, fps, instances, motionPaths, pipeVars, otherVars>>

\* this.aggregateDetections(rawAnalysis, fps) returns or throws.
RawAggregate ==
    /\ pc = "raw"
    /\ IF aggregateThrows(frames)
       THEN /\ pc' = "threw"
            /\ instances' = instances
       ELSE /\ pc' = "returned"
            /\ \E ids \in IdSeqs(SurvivingGroups(frames)) :
                  instances' = aggregateDetections(frames, fps, ids)
    /\ UNCHANGED <<frames, fps, motionPaths, pipeVars, otherVars>>

\* this.averageBoundingBox(boxes), called on its own.
CallAverageBoundingBox ==
    /\ pc = "raw"
    /\ frames = <<>>
    /\ \E boxes \in BoxLists :
          result' = [call |-> "averageBoundingBox", boxes |-> boxes,
                     threw |-> FALSE, returned |-> averageBoundingBox(boxes)]
    /\ pc' = "called"
    /\ UNCHANGED <<frames, fps, instances, motionPaths, branch, variation, merged, otherVars>>

\* The grouping of aggregateDetections on two detections, called on its own.
CallGroup ==
    /\ pc = "raw"
    /\ frames = <<>>
    /\ \E t1, t2 \in SpacedTexts :
          result' = [call |-> "group", texts |-> <<t1, t2>>,
                     groups |-> groupByNormalizedText(
                         <<Detection(t1, 0, RawBox, 9), Detection(t2, 1, RawBox, 9)>>)]
    /\ pc' = "called"
    /\ UNCHANGED <<frames, fps, instances, motionPaths, branch, variation, merged, otherVars>>

\* Detected strings of five and six characters that differ in one character.
FuzzyTexts ==
    { <<"h", "i", "y", "o", "1">>, <<"h", "i", "y", "o", "_">>,
      <<"H", "i", "y", "o", "1">>,
      <<"h", "i", "y", "o", "1", "1">>, <<"h", "i", "y", "o", "1", "_">>,
      <<"Y", "o">> }

\* groupSimilarText on two frames with one detection each, called on its own.
CallGroupSimilar ==
    /\ pc = "raw"
    /\ frames = <<>>
    /\ \E t1, t2 \in FuzzyTexts :
          result' = [call |-> "groupSimilarText", texts |-> <<t1, t2>>,
                     groups |-> groupSimilarText(
                         <<VisionFrame(0, fps, <<Detection(t1, 0, RawBox, 9)>>),
                           VisionFrame(1, fps, <<Detection(t2, 1, RawBox, 9)>>)>>)]
    /\ pc' = "called"
    /\ UNCHANGED <<frames, fps, instances, motionPaths, branch, variation, merged, otherVars>>

\* Keyframes on the line through (0, 0) and (3, 4), where every distance is
\* rational, at non-decreasing times (the caller has sorted by timestamp).
MaxKeyframes == 4
LinePoints == {0, 7, 10, 17}
KeyframeTimes == {0, 1000, 2000, 3000}
KeyframeLists ==
    UNION {
        {[i \in 1..n |-> [time |-> ts[i], x |-> RatInt(3 * ks[i]), y |-> RatInt(4 * ks[i])]] :
            ts \in {t \in [1..n -> KeyframeTimes] :
                        \A i \in 1..(n - 1) : t[i] <= t[i + 1]},
            ks \in [1..n -> LinePoints]} :
        n \in 2..MaxKeyframes}

\* this.determineEasing(keyframes), called on its own.
CallDetermineEasing ==
    /\ pc = "raw"
    /\ frames = <<>>
    /\ \E keyframes \in KeyframeLists :
          result' = [call |-> "determineEasing", keyframes |-> keyframes,
                     returned |-> determineEasing(keyframes)]
    /\ pc' = "called"
    /\ UNCHANGED <<frames, fps, instances, motionPaths, branch, variation, merged, otherVars>>

CallNext ==
    \/ CallDetermineEasing
    \/ CallGroupSimilar
    \/ RawAddFrame
    \/ RawAddDetection
    \/ RawAggregate
    \/ CallAverageBoundingBox
    \/ CallGroup

CallSpec == CallInit /\ [][CallNext]_vars

-----------------------------------------------------------------------------
(* Specification of VisionService.analyzeVideoFrames, both variants *)

MaxVisionFrames == 4
\* const BATCH_SIZE = 3; const maxAttempts = 3 (retrying variant)
BatchSize == 3
MaxAttempts == 3

\* The entry pushed or returned for a frame whose analysis failed.
emptyAnalysis_First(index, timestamp) ==
    [frameIndex |-> 0, timestamp |-> timestamp,
     detections |-> <<>>, visuals |-> EmptyVisuals]
emptyAnalysis(index, timestamp) ==
    [frameIndex |-> index, timestamp |-> timestamp,
     detections |-> <<>>, visuals |-> EmptyVisuals]

\* What one call of analyzeFrame(frame, index) does: it throws, or returns
\* the detections of the model's answer stamped with index.
FrameOutcomes(index, timestamp) ==
    {[ok |-> FALSE, value |-> <<>>]}
        \cup {[ok |-> TRUE,
                value |-> [frameIndex |-> index, timestamp |-> timestamp,
                           detections |-> ds, visuals |-> Visuals[1]]] :
               ds \in {<<>>, <<Detection(<<"H", "i">>, index, RawBox, 9)>>}}

\* frames.slice(i, i + BATCH_SIZE).map(async ...): one promise per frame of
\* the batch that starts at index i.
BatchSlots(n, i) ==
    [k \in 1..(IF n - i < BatchSize THEN (IF n - i < 0 THEN 0 ELSE n - i) ELSE BatchSize) |->
        [attempts |-> 0, settled |-> <<>>]]

VisionInputs(f) ==
    {[k \in 1..n |-> [timestamp |-> FrameTimestamp(k - 1, f)]] : n \in 0..MaxVisionFrames}

VisionInit ==
    /\ pc = "vision"
    /\ fps \in FpsValues
    /\ frames = <<>>
    /\ instances = <<>>
    /\ motionPaths = <<>>
    /\ PipeIdle
    /\ editor = EditorIdle
    /\ \E variant \in {"sequential", "retrying"}, input \in VisionInputs(fps) :
          vision = [state |-> "running", variant |-> variant, input |-> input,
                    i |-> 0,
                    slots |-> IF variant = "retrying"
                              THEN BatchSlots(Len(input), 0) ELSE <<>>,
                    results |-> <<>>,
                    failures |-> [k \in 1..Len(input) |-> 0]]

\* vision.ts: one pass of the for loop, try { push(result) } catch { push(empty) }
VSAnalyze ==
    /\ vision.state = "running"
    /\ vision.variant = "sequential"
    /\ vision.i < Len(vision.input)
    /\ LET i == vision.i
           ts == vision.input[i + 1].timestamp
       IN  \E o \in FrameOutcomes(i, ts) :
              vision' = [vision EXCEPT
                  !.results = Append(@, IF o.ok THEN o.value ELSE emptyAnalysis(i, ts)),
                  !.failures[i + 1] = IF o.ok THEN @ ELSE @ + 1,
                  !.i = i + 1]
    /\ UNCHANGED <<pc, frames, fps, instances, motionPaths, pipeVars, editor>>

\* vision.ts: return results
VSReturn ==
    /\ vision.state = "running"
    /\ vision.variant = "sequential"
    /\ vision.i >= Len(vision.input)
    /\ vision' = [vision EXCEPT !.state = "returned"]
    /\ frames' = vision.results
    /\ UNCHANGED <<pc, fps, instances, motionPaths, pipeVars, editor>>

\* Retrying variant: one attempt of the promise of batch slot k.
VRAttempt(k) ==
    /\ vision.state = "running"
    /\ vision.variant = "retrying"
    /\ k \in 1..Len(vision.slots)
    /\ vision.slots[k].settled = <<>>
    /\ vision.slots[k].attempts < MaxAttempts
    /\ LET globalIndex == vision.i + k - 1
           ts == vision.input[globalIndex + 1].timestamp
           attempts == vision.slots[k].attempts + 1
       IN  \E o \in FrameOutcomes(globalIndex, ts) :
              vision' = [vision EXCEPT
                  !.slots[k] =
                      IF o.ok THEN [@ EXCEPT !.settled = <<o.value>>]
                      ELSE IF attempts = MaxAttempts
                      THEN [attempts |-> attempts,
                            settled |-> <<emptyAnalysis(globalIndex, ts)>>]
                      ELSE [@ EXCEPT !.attempts = attempts],
                  !.failures[globalIndex + 1] = IF o.ok THEN @ ELSE @ + 1]
    /\ UNCHANGED <<pc, frames, fps, instances, motionPaths, pipeVars, editor>>

\* await Promise.all(batchPromises); results.push(...batchResults); i += 3
VRBatchDone ==
    /\ vision.state = "running"
    /\ vision.variant = "retrying"
    /\ vision.i < Len(vision.input)
    /\ \A k \in 1..Len(vision.slots) : vision.slots[k].settled # <<>>
    /\ vision' = [vision EXCEPT
          !.results = @ \o [k \in 1..Len(vision.slots) |-> vision.slots[k].settled[1]],
          !.i = @ + BatchSize,
          !.slots = BatchSlots(Len(vision.input), vision.i + BatchSize)]
    /\ UNCHANGED <<pc, frames, fps, instances, motionPaths, pipeVars, editor>>

\* return results.sort((a, b) => a.frameIndex - b.frameIndex)
VRReturn ==
    /\ vision.state = "running"
    /\ vision.variant = "retrying"
    /\ vision.i >= Len(vision.input)
    /\ LET sorted == sortByFrameIndex(vision.results) IN
       /\ vision' = [vision EXCEPT !.state = "returned", !.results = sorted]
       /\ frames' = sorted
    /\ UNCHANGED <<pc, fps, instances, motionPaths, pipeVars, editor>>

VisionNext ==
    \/ VSAnalyze
    \/ VSReturn
    \/ \E k \in 1..BatchSize : VRAttempt(k)
    \/ VRBatchDone
    \/ VRReturn

VisionSpec == VisionInit /\ [][VisionNext]_vars

-----------------------------------------------------------------------------
(* Specification of the editor store (useEditorStore) *)

\* reRender calls that can be in flight together, and saveChanges calls.
MaxCalls == 2
MaxSaves == 1

\* Partial<DesignSchema>: the controls of the panel update one field each;
\* the user picks another font family or another colour.
SchemaUpdates == {[fontFamily |-> "Roboto"], [color |-> "#000000"]}

\* The text the user types into a segment.
SegmentTexts == {"new"}

\* Segment indices the panel can pass; the last one names no segment.
SegmentIndices == 0..1

\* { ...base, ...updates }
Merge(base, updates) ==
    [f \in (DOMAIN base) \cup (DOMAIN updates) |->
        IF f \in DOMAIN updates THEN updates[f] ELSE base[f]]

\* The project setProject stores.  Its selected variation has one segment
\* without a style of its own; editor.segments is that variation's segments
\* array, an object every copy of the project refers to.
LoadedProject(hasFile) ==
    [designSchema |-> [fontFamily |-> "Inter", color |-> "#ffffff"],
     outputVideoUrl |-> <<>>,
     userVideoFile |-> hasFile]

\* The state after setProject(project).
EditorInit ==
    /\ pc = "editor"
    /\ fps = 1
    /\ frames = <<>>
    /\ instances = <<>>
    /\ motionPaths = <<>>
    /\ PipeIdle
    /\ vision = VisionIdle
    /\ \E hasFile \in BOOLEAN :
          editor = [project |-> <<LoadedProject(hasFile)>>,
                    segments |-> <<[text |-> "old", style |-> <<>>]>>,
                    hasUnsavedChanges |-> FALSE,
                    isReRendering |-> FALSE,
                    calls |-> <<>>,
                    saves |-> 0]

EditorUnchanged ==
    UNCHANGED <<pc, frames, fps, instances, motionPaths, pipeVars, vision>>

updateDesignSchema(updates) ==
    /\ pc = "editor"
    /\ editor.project # <<>>
    /\ editor' = [editor EXCEPT
          !.project = <<[@[1] EXCEPT !.designSchema = Merge(@, updates)]>>,
          !.hasUnsavedChanges = TRUE]
    /\ EditorUnchanged

\* selectedVariation.segments[index] = {...} writes into the array the old
\* project objects refer to as well.
updateSegmentText(index, text) ==
    /\ pc = "editor"
    /\ editor.project # <<>>
    /\ index + 1 \in DOMAIN editor.segments
    /\ editor' = [editor EXCEPT
          !.segments[index + 1].text = text,
          !.hasUnsavedChanges = TRUE]
    /\ EditorUnchanged

updateSegmentSchema(index, schemaUpdates) ==
    /\ pc = "editor"
    /\ editor.project # <<>>
    /\ index + 1 \in DOMAIN editor.segments
    /\ LET segment == editor.segments[index + 1]
           currentStyle == IF segment.style # <<>> THEN segment.style[1]
                           ELSE editor.project[1].designSchema
       IN  editor' = [editor EXCEPT
              !.segments[index + 1].style = <<Merge(currentStyle, schemaUpdates)>>,
              !.hasUnsavedChanges = TRUE]
    /\ EditorUnchanged

\* saveChanges up to its await fetch(...)
saveChanges ==
    /\ pc = "editor"
    /\ editor.project # <<>>
    /\ editor.saves < MaxSaves
    /\ editor' = [editor EXCEPT !.saves = @ + 1]
    /\ EditorUnchanged

\* if (response.ok) set({ hasUnsavedChanges: false }); otherwise nothing is
\* set, and a rejected fetch is rethrown.
saveChangesSettles ==
    /\ pc = "editor"
    /\ editor.saves > 0
    /\ \E ok \in BOOLEAN :
          editor' = [editor EXCEPT
              !.saves = @ - 1,
              !.hasUnsavedChanges = IF ok THEN FALSE ELSE @]
    /\ EditorUnchanged

resetChanges ==
    /\ pc = "editor"
    /\ editor' = [editor EXCEPT !.hasUnsavedChanges = FALSE]
    /\ EditorUnchanged

exitEditor ==
    /\ pc = "editor"
    /\ editor' = [editor EXCEPT !.project = <<>>, !.hasUnsavedChanges = FALSE]
    /\ EditorUnchanged

\* The body of the request: JSON.stringify({segments, schema, topic}).
RenderRequest(project, segments) ==
    [segments |-> segments, schema |-> project.designSchema]

\* reRender up to its await fetch(...): the call keeps the project object it
\* read and the request it sent.
reRender ==
    /\ pc = "editor"
    /\ editor.project # <<>>
    /\ editor.project[1].userVideoFile
    /\ Len(editor.calls) < MaxCalls
    /\ editor' = [editor EXCEPT
          !.isReRendering = TRUE,
          !.calls = Append(@, [project |-> editor.project[1],
                               sent |-> RenderRequest(editor.project[1],
                                                      editor.segments)])]
    /\ EditorUnchanged

RemoveAt(s, c) == SubSeq(s, 1, c - 1) \o SubSeq(s, c + 1, Len(s))

\* The response of call c is ok: set({ project: {...project, outputVideoUrl:
\* url}, hasUnsavedChanges: false, isReRendering: false }).  The url stands
\* for the video rendered from the request.
reRenderResolves(c) ==
    /\ pc = "editor"
    /\ c \in DOMAIN editor.calls
    /\ editor' = [editor EXCEPT
          !.project = <<[editor.calls[c].project EXCEPT
                            !.outputVideoUrl = <<editor.calls[c].sent>>]>>,
          !.hasUnsavedChanges = FALSE,
          !.isReRendering = FALSE,
          !.calls = RemoveAt(@, c)]
    /\ EditorUnchanged

\* fetch rejects or the response is not ok: set({ isReRendering: false })
reRenderRejects(c) ==
    /\ pc = "editor"
    /\ c \in DOMAIN editor.calls
    /\ editor' = [editor EXCEPT
          !.isReRendering = FALSE,
          !.calls = RemoveAt(@, c)]
    /\ EditorUnchanged

EditorNext ==
    \/ \E updates \in SchemaUpdates : updateDesignSchema(updates)
    \/ \E index \in SegmentIndices, text \in SegmentTexts :
          updateSegmentText(index, text)
    \/ \E index \in SegmentIndices, updates \in SchemaUpdates :
          updateSegmentSchema(index, updates)
    \/ saveChanges
    \/ saveChangesSettles
    \/ resetChanges
    \/ exitEditor
    \/ reRender
    \/ \E c \in 1..MaxCalls : reRenderResolves(c)
    \/ \E c \in 1..MaxCalls : reRenderRejects(c)

EditorSpec == EditorInit /\ [][EditorNext]_vars

-----------------------------------------------------------------------------
(* Properties of aggregateDetections and of the motion paths *)

AllDetections == flatMapDetections(frames)

\* The detections of the batch whose normalized key is k, in arrival order.
DetectionsWithKey(k) ==
    SelectSeq(AllDetections, LAMBDA d : normalizeText(d.text) = k)

\* The detections that share the normalized key of instance inst.
Contributors(inst) == DetectionsWithKey(normalizeText(inst.text))

Aggregated == pc = "aggregated"

\* C1 (noise filter): every produced instance has at least two contributing
\* detections that share its normalized key, and a normalized key carried by
\* exactly one detection of the batch produces no instance.
C1_NoiseFilter ==
    Aggregated =>
        /\ \A i \in 1..Len(instances) : Len(Contributors(instances[i])) >= 2
        /\ \A j \in 1..Len(AllDetections) :
              LET k == normalizeText(AllDetections[j].text) IN
              Len(DetectionsWithKey(k)) = 1 =>
                  \A i \in 1..Len(instances) : normalizeText(instances[i].text) # k

\* A batch with a surviving group next to a key seen exactly once.
C1_Witness ==
    /\ Aggregated
    /\ Len(instances) = 1
    /\ \E j \in 1..Len(AllDetections) :
          LET k == normalizeText(AllDetections[j].text) IN
          k # <<>> /\ Len(DetectionsWithKey(k)) = 1

FrameIndices(ds) == {ds[i].frameIndex : i \in 1..Len(ds)}
MinOf(S) == CHOOSE m \in S : \A n \in S : m <= n
MaxOf(S) == CHOOSE m \in S : \A n \in S : n <= m

\* C2 (temporal bound): startFrame and endFrame are the least and the
\* greatest frameIndex of the instance's group, startTime and endTime are
\* those indices divided by fps, and start never exceeds end.
C2_TemporalBound ==
    Aggregated =>
        \A i \in 1..Len(instances) :
            LET inst == instances[i]
                fis == FrameIndices(Contributors(inst))
            IN  /\ inst.startFrame = MinOf(fis)
                /\ inst.endFrame = MaxOf(fis)
                /\ inst.startFrame <= inst.endFrame
                /\ inst.startTime.n * fps = inst.startFrame * inst.startTime.d
                /\ inst.endTime.n * fps = inst.endFrame * inst.endTime.d
                /\ RatLE(inst.startTime, inst.endTime)

\* A group whose detections arrive with decreasing frame indices.
C2_Witness ==
    /\ Aggregated
    /\ \E i \in 1..Len(instances) :
          LET c == Contributors(instances[i]) IN
          /\ c[1].frameIndex > c[Len(c)].frameIndex
          /\ instances[i].startFrame < instances[i].endFrame

NonDecreasing(times) ==
    \A i \in 1..(Len(times) - 1) : RatLE(times[i], times[i + 1])

\* C3 (keyframe ordering): along every motion path of the orchestrator and
\* of the motion tracker the keyframe times never decrease.
C3_KeyframeOrdering ==
    /\ \A i \in 1..Len(instances) :
          LET kf == instances[i].motionPath.keyframes IN
          NonDecreasing([j \in 1..Len(kf) |-> kf[j].time])
    /\ \A i \in 1..Len(motionPaths) :
          LET kf == motionPaths[i].path.keyframes IN
          NonDecreasing([j \in 1..Len(kf) |-> RatInt(kf[j].time)])

\* The orchestrator builds a path from detections that arrived later-frame
\* first: the keyframes come out in time order, not in arrival order.
C3_Witness ==
    /\ Aggregated
    /\ \E i \in 1..Len(instances) :
          LET c == Contributors(instances[i])
              kf == instances[i].motionPath.keyframes
          IN  /\ c[1].frameIndex > c[Len(c)].frameIndex
              /\ Len(kf) >= 2
              /\ RatLT(kf[1].time, kf[Len(kf)].time)
              /\ kf[1].x # c[1].boundingBox.x

\* Population variance n * sum(v^2) - (sum v)^2 over n^2.
PopulationVariance(vs) ==
    LET n == Len(vs) IN
    Rat(n * SumSeq([i \in 1..n |-> vs[i] * vs[i]]) - SumSeq(vs) * SumSeq(vs), n * n)

\* C4 (static/moving classification): the variance of a motion path is the
\* population variance of the group's x values plus that of its y values,
\* the type is STATIC when the sum is at most 2 and LINEAR above 2, and the
\* path keeps one keyframe per detection.
C4_Classification ==
    Aggregated =>
        \A i \in 1..Len(instances) :
            LET c == Contributors(instances[i])
                mp == instances[i].motionPath
                total == RatAdd(
                    PopulationVariance([j \in 1..Len(c) |-> c[j].boundingBox.x]),
                    PopulationVariance([j \in 1..Len(c) |-> c[j].boundingBox.y]))
            IN  /\ Len(c) >= 2
                /\ mp.variance = total
                /\ RatLE(total, RatInt(2)) => mp.type = "STATIC"
                /\ RatLT(RatInt(2), total) => mp.type = "LINEAR"
                /\ Len(mp.keyframes) = Len(c)
                /\ (\A j \in 1..Len(c) : c[j].boundingBox = c[1].boundingBox)
                      => mp.type = "STATIC" /\ mp.variance = RatInt(0)

\* x = 10, 20, 30, 40 at constant y: LINEAR with 4 keyframes.
C4_Witness ==
    /\ Aggregated
    /\ Len(instances) = 1
    /\ instances[1].motionPath.type = "LINEAR"
    /\ Len(instances[1].motionPath.keyframes) = 4
    /\ {instances[1].motionPath.keyframes[j].x : j \in 1..4} = {10, 20, 30, 40}

\* C5 (confidence-driven label): the instance's text is the verbatim text of
\* a group member of maximal confidence, and detectionConfidence is that
\* maximum.
C5_LabelSelection ==
    Aggregated =>
        \A i \in 1..Len(instances) :
            LET c == Contributors(instances[i])
                top == MaxOf({c[j].confidence : j \in 1..Len(c)})
            IN  /\ instances[i].detectionConfidence = top
                /\ \E j \in 1..Len(c) :
                      c[j].confidence = top /\ c[j].text = instances[i].text

\* The confident reading is outvoted two to one and arrives first.
C5_Witness ==
    /\ Aggregated
    /\ \E i \in 1..Len(instances) :
          LET c == Contributors(instances[i]) IN
          /\ Len(c) = 3
          /\ c[1].confidence = 9 /\ c[2].confidence = 4 /\ c[3].confidence = 4
          /\ c[1].text # c[2].text /\ c[2].text = c[3].text
          /\ instances[i].text = c[1].text

\* C6 (aggregation correctness): every component of the instance's box is
\* the arithmetic mean of that component over the group's boxes; identical
\* boxes aggregate to that same box.
C6_MeanBox ==
    Aggregated =>
        \A i \in 1..Len(instances) :
            LET c == Contributors(instances[i])
                n == Len(c)
                bb == instances[i].boundingBox
                Total(F(_)) == SumSeq([j \in 1..n |-> F(c[j].boundingBox)])
                X(b) == b.x
                Y(b) == b.y
                W(b) == b.width
                H(b) == b.height
            IN  /\ bb.x.n * n = Total(X) * bb.x.d
                /\ bb.y.n * n = Total(Y) * bb.y.d
                /\ bb.width.n * n = Total(W) * bb.width.d
                /\ bb.height.n * n = Total(H) * bb.height.d
                /\ (\A j \in 1..n : c[j].boundingBox = c[1].boundingBox) =>
                      /\ bb.x = RatInt(c[1].boundingBox.x)
                      /\ bb.y = RatInt(c[1].boundingBox.y)
                      /\ bb.width = RatInt(c[1].boundingBox.width)
                      /\ bb.height = RatInt(c[1].boundingBox.height)

\* Three different boxes whose mean is not an integer in y.
C6_Witness ==
    /\ Aggregated
    /\ \E i \in 1..Len(instances) :
          LET c == Contributors(instances[i]) IN
          /\ Len(c) = 3
          /\ Cardinality({c[j].boundingBox : j \in 1..3}) = 3
          /\ instances[i].boundingBox.y.d # 1

-----------------------------------------------------------------------------
(* Properties of processVideo's enrichment *)

HasMerged == DOMAIN merged # {}
Settled(p) == p.state \in {"fulfilled", "rejected"}

\* C7 (enrichment defaults): an overlay whose id the role map lacks has role
\* BODY, and one whose id the layout map lacks has the centred layout with
\* zIndex 1 and zero padding and margin; the returned overlays are these.
C7_EnrichmentDefaults ==
    HasMerged =>
        /\ Len(merged.overlays) = Len(instances)
        /\ \A i \in 1..Len(instances) :
              LET o == merged.overlays[i]
                  id == instances[i].id
              IN  /\ o.id = id
                  /\ id \notin DOMAIN branch["role"].value => o.role = "BODY"
                  /\ id \notin DOMAIN branch["layout"].value =>
                        o.layout = [anchor |-> "center", alignment |-> "center",
                                    zIndex |-> 1,
                                    padding |-> [top |-> 0, right |-> 0,
                                                 bottom |-> 0, left |-> 0],
                                    margin |-> [top |-> 0, right |-> 0,
                                                bottom |-> 0, left |-> 0]]
        /\ pc = "done" => result.overlays = merged.overlays

\* Two overlays returned; both maps know the first id only.
C7_Witness ==
    /\ pc = "done"
    /\ Len(result.overlays) = 2
    /\ DOMAIN branch["role"].value = {result.overlays[1].id}
    /\ DOMAIN branch["layout"].value = {result.overlays[1].id}
    /\ result.overlays[1].role = "HOOK"
    /\ result.overlays[2].role = "BODY"
    /\ result.overlays[2].layout.anchor = "center"

FailedCollaborators ==
    {b \in Branches : branch[b].failure # "none"}
        \cup (IF variation.failure # "none" THEN {"variation"} ELSE {})

\* C8 (failure isolation): when exactly one collaborator has failed, and it
\* is the layout, role or design-system one, processVideo is not rejected.
C8_FailureIsolation ==
    (Cardinality(FailedCollaborators) = 1 /\ FailedCollaborators \subseteq Branches)
        => pc # "rejected"

\* C9 (join semantics): the three enrichment calls are started together; the
\* merge and the call of generateVariations happen only with all three
\* promises fulfilled; and a branch whose collaborator is still to answer
\* can complete whatever happened to the other branches or to processVideo.
C9_JoinSemantics ==
    /\ (\E b \in Branches : branch[b].state # "idle")
          => (\A b \in Branches : branch[b].state # "idle")
    /\ HasMerged => \A b \in Branches : branch[b].state = "fulfilled"
    /\ variation.state # "idle" =>
          HasMerged /\ \A b \in Branches : branch[b].state = "fulfilled"
    /\ pc \in {"awaitVariations", "done"} => HasMerged
    /\ \A b \in Branches :
          (branch[b].state = "pending" /\ ~branch[b].silent) => ENABLED Respond(b)

\* processVideo has rejected on one branch's error while another branch is
\* still in flight and a third has completed.
C9_Witness ==
    /\ pc = "rejected"
    /\ \E b1, b2, b3 \in Branches :
          /\ branch[b1].state = "rejected"
          /\ branch[b2].state = "pending" /\ ~branch[b2].silent
          /\ ENABLED Respond(b2)
          /\ branch[b3].state = "fulfilled"

\* C10 (no indefinite blocking): a call of processVideo that has started its
\* enrichment calls eventually resolves or rejects, also when a collaborator
\* never responds.
C10_Completes == (pc = "awaitAll") ~> (pc \in {"done", "rejected"})

-----------------------------------------------------------------------------
(* Properties of whole runs of processVideo *)

\* C11 (idempotence): a second run of processVideo on the same analysis, with
\* the collaborators resolving to the same values, returns a result equal to
\* the first in every field except projectId, whatever uuids the second run
\* draws.
C11_Idempotent ==
    pc = "done" =>
        \A ids2 \in IdSeqs(Len(instances)), p2 \in ProjectIds :
            LET second == processVideoRun(frames, fps, ids2,
                              branch["layout"].value, branch["role"].value,
                              branch["design"].value, variation.value, p2)
            IN  [second EXCEPT !.projectId = result.projectId] = result

-----------------------------------------------------------------------------
(* Further properties of aggregateDetections *)

\* The frame analyses (by position in the batch) that hold a detection whose
\* normalized key is k.
FramesWithKey(k) ==
    {i \in 1..Len(frames) :
        \E j \in 1..Len(frames[i].detections) :
            normalizeText(frames[i].detections[j].text) = k}

\* C12 (single-frame flashes): every produced instance has detections of its
\* key in at least two different frame analyses; a key seen in one frame
\* only, however often, produces no instance.
C12_TwoFrames ==
    Aggregated =>
        \A i \in 1..Len(instances) :
            Cardinality(FramesWithKey(normalizeText(instances[i].text))) >= 2

\* C13 (duration floor): the duration of every produced instance is
\* endTime - startTime when that is at least one time unit and one time unit
\* otherwise, so no duration is below 1.
C13_DurationFloor ==
    Aggregated =>
        \A i \in 1..Len(instances) :
            LET inst == instances[i]
                diff == RatSub(inst.endTime, inst.startTime)
            IN  /\ inst.duration = IF RatLE(RatInt(1), diff) THEN diff ELSE RatInt(1)
                /\ RatLE(RatInt(1), inst.duration)

-----------------------------------------------------------------------------
(* Properties of processVideo's defaults and warnings *)

\* The design system the collaborator itself supplied: nothing when its text
\* could not be parsed.
SuppliedDesign ==
    IF branch["design"].failure = "malformed" THEN <<>> ELSE branch["design"].value

DesignFields == DOMAIN ParseFailureDesignSystem

\* The fallback constants the specification documents.
DocumentedFallback ==
    [fontsPrimary |-> "Inter", colorsBackground |-> "#000000", spacingBase |-> 4]

\* C14 (design-system fallbacks): every documented field the collaborator
\* did not supply carries its documented fallback in the result, and the
\* result has one warning for each field that fell back.
C14_DesignFallbacks ==
    pc = "done" =>
        /\ \A f \in DOMAIN DocumentedFallback :
              f \notin DOMAIN SuppliedDesign =>
                  result.designSystem[f] = DocumentedFallback[f]
        /\ Len(result.warnings) = Cardinality(DesignFields \ DOMAIN SuppliedDesign)

\* C15 (warnings channel): a run that completed although the layout or the
\* role collaborator returned malformed data, with defaults taking the place
\* of its answer, returns at least one warning.
C15_WarningsChannel ==
    (/\ pc = "done"
     /\ Len(result.overlays) > 0
     /\ \E b \in {"layout", "role"} : branch[b].failure = "malformed")
        => result.warnings # <<>>

-----------------------------------------------------------------------------
(* Properties of aggregateDetections on unvalidated input *)

WellFormed(d) == "text" \in DOMAIN d /\ "boundingBox" \in DOMAIN d

\* The batch without its malformed detections.
WithoutMalformed(fs) ==
    [i \in 1..Len(fs) |->
        [fs[i] EXCEPT !.detections = SelectSeq(@, LAMBDA d : WellFormed(d))]]

\* C16 (malformed detections): aggregateDetections never throws, and what it
\* returns is what it returns on the batch without the detections that lack
\* a text or a boundingBox.
C16_MalformedSkipped ==
    /\ pc # "threw"
    /\ pc = "returned" =>
          \E ids \in IdSeqs(Len(instances)) :
              instances = aggregateDetections(WithoutMalformed(frames), fps, ids)

\* C17 (empty aggregation): averageBoundingBox called with no boxes throws,
\* and the grouping map never holds a group without members.
C17_EmptyIsLoud ==
    /\ (pc = "called" /\ result.call = "averageBoundingBox" /\ result.boxes = <<>>)
          => result.threw
    /\ (pc = "called" /\ result.call = "group") =>
          \A g \in 1..Len(result.groups) : Len(result.groups[g].members) >= 1

\* What is left of a text when letter case, punctuation and leading,
\* trailing and repeated whitespace are disregarded.
Canonical(t) == Trim(CollapseSpaces(StripNonWord(ToLowerCase(t))))

\* C20 (normalization and grouping): two detections are in the same group
\* exactly if their normalized keys are equal, and texts that differ only in
\* case, punctuation or leading, trailing or repeated whitespace have the
\* same normalized key.
C20_Normalization ==
    (pc = "called" /\ result.call = "group") =>
        LET t1 == result.texts[1]
            t2 == result.texts[2]
            together == \E g \in 1..Len(result.groups) :
                            Len(result.groups[g].members) = 2
        IN  /\ normalizeText(t1) # <<>> =>
                  (together <=> normalizeText(t1) = normalizeText(t2))
            /\ Canonical(t1) = Canonical(t2) => normalizeText(t1) = normalizeText(t2)

-----------------------------------------------------------------------------
(* Properties of processVideo's variations and of its stages' outputs *)

\* C18 (variations only for hooks and CTAs): every entry of the returned
\* variations names an overlay of the same result whose role is HOOK or CTA,
\* and without such an overlay the variations list is empty.
C18_VariationsForHooks ==
    pc = "done" =>
        /\ \A v \in 1..Len(result.variations) :
              \E o \in 1..Len(result.overlays) :
                  /\ result.overlays[o].id = result.variations[v].segmentId
                  /\ result.overlays[o].role \in {"HOOK", "CTA"}
        /\ (\A o \in 1..Len(result.overlays) :
                result.overlays[o].role \notin {"HOOK", "CTA"})
              => result.variations = <<>>

InstanceFields ==
    {"id", "text", "startFrame", "endFrame", "startTime", "endTime", "duration",
     "boundingBox", "motionPath", "visuals", "detectionConfidence"}

\* One overlay per instance, in order, with the instance's fields kept.
OverlaysExtend(overlays, cs) ==
    /\ Len(overlays) = Len(cs)
    /\ \A i \in 1..Len(cs) :
          /\ DOMAIN cs[i] = InstanceFields
          /\ \A f \in InstanceFields :
                f \in DOMAIN overlays[i] /\ overlays[i][f] = cs[i][f]

C19_Step ==
    /\ pc # "start" => frames' = frames
    /\ pc \notin {"start", "analysed"} => instances' = instances
    /\ merged' # NotMerged => OverlaysExtend(merged'.overlays, instances')
    /\ pc' = "done" => OverlaysExtend(result'.overlays, instances')

\* C19 (no mutation of inputs): no step of processVideo after the vision
\* phase changes the frame analyses or their detections, no step after the
\* aggregation changes an instance, and the enrichment yields one overlay
\* per instance, in order, each carrying its instance's fields unchanged.
C19_NoMutation == [][C19_Step]_vars

\* A finished run with two overlays that got a role and a layout from the
\* collaborators while their instances have neither field.
C19_Witness ==
    /\ pc = "done"
    /\ Len(result.overlays) = 2
    /\ Len(instances) = 2
    /\ \A i \in 1..2 :
          /\ result.overlays[i].role = "CTA"
          /\ result.overlays[i].layout.anchor = "top"
          /\ "role" \notin DOMAIN instances[i]
          /\ "layout" \notin DOMAIN instances[i]
          /\ result.overlays[i].motionPath = instances[i].motionPath

-----------------------------------------------------------------------------
(* Properties of the motion paths of both services *)

\* C21 (segment-local keyframe time): in every motion path the first
\* keyframe has time 0 and the last keyframe's time is the length of the
\* element's time span (endTime - startTime, the tracker's duration).
C21_SegmentLocalTime ==
    /\ Aggregated =>
          \A i \in 1..Len(instances) :
              LET kf == instances[i].motionPath.keyframes IN
              kf # <<>> =>
                  /\ kf[1].time = RatInt(0)
                  /\ kf[Len(kf)].time =
                        RatSub(instances[i].endTime, instances[i].startTime)
    /\ pc = "tracked" =>
          \A i \in 1..Len(motionPaths) :
              LET kf == motionPaths[i].path.keyframes IN
              /\ kf[1].time = 0
              /\ kf[Len(kf)].time = motionPaths[i].path.duration

\* The member of a group seen first: least timestamp, first to arrive among
\* equals; and the member seen last.
Earliest(members) ==
    members[CHOOSE i \in 1..Len(members) :
                \A j \in 1..Len(members) :
                    \/ members[i].timestamp < members[j].timestamp
                    \/ members[i].timestamp = members[j].timestamp /\ i <= j]
Latest(members) ==
    members[CHOOSE i \in 1..Len(members) :
                \A j \in 1..Len(members) :
                    \/ members[i].timestamp > members[j].timestamp
                    \/ members[i].timestamp = members[j].timestamp /\ i >= j]

\* Square of the straight-line distance between two centre positions.
SquaredDistance(p, q) ==
    LET dx == RatSub(q.x, p.x)
        dy == RatSub(q.y, p.y)
    IN  RatAdd(RatMul(dx, dx), RatMul(dy, dy))

\* The group moved by at least 5 percent of the frame from its earliest to
\* its latest centre.
MovedFar(members) ==
    RatLE(RatInt(25), SquaredDistance(Earliest(members), Latest(members)))

\* C25 (displacement threshold): every path trackTextMotion returns belongs
\* to a group of at least 2 detections whose earliest and latest centres lie
\* at least 5 apart, and has at least 2 keyframes; a group whose earliest and
\* latest centres lie closer than 5 has no path, and a group of at least 2
\* detections that moved that far has one.
C25_DisplacementThreshold ==
    pc = "tracked" =>
        LET groups == groupSimilarText(frames) IN
        /\ \A i \in 1..Len(motionPaths) :
              /\ Len(motionPaths[i].path.keyframes) >= 2
              /\ \E g \in 1..Len(groups) :
                    /\ groups[g].key = motionPaths[i].text
                    /\ Len(groups[g].members) >= 2
                    /\ MovedFar(groups[g].members)
        /\ \A g \in 1..Len(groups) :
              LET hasPath == \E i \in 1..Len(motionPaths) :
                                 motionPaths[i].text = groups[g].key
              IN  hasPath <=> (Len(groups[g].members) >= 2
                               /\ MovedFar(groups[g].members))

\* One group of three detections whose middle position is far from the other
\* two gets no path, next to a run in which some group does get one.
C25_StaticWitness ==
    /\ pc = "tracked"
    /\ motionPaths = <<>>
    /\ LET groups == groupSimilarText(frames) IN
       \E g \in 1..Len(groups) :
          LET m == groups[g].members IN
          /\ Len(m) = 3
          /\ ~MovedFar(m)
          /\ RatLE(RatInt(25), SquaredDistance(m[1], m[2]))

\* A group that moved far enough has a path of as many keyframes as it has
\* detections.
C25_Witness ==
    /\ pc = "tracked"
    /\ \E i \in 1..Len(motionPaths) :
          LET kf == motionPaths[i].path.keyframes IN
          /\ Len(kf) = 3
          /\ RatLE(RatInt(25), SquaredDistance(kf[1], kf[3]))

-----------------------------------------------------------------------------
(* Properties of detections without a key *)

HasEmptyKey(d) == normalizeText(d.text) = <<>>

\* The batch with every detection of an empty key taken out of its frame.
WithoutEmptyKeys(fs) ==
    [k \in 1..Len(fs) |->
        [fs[k] EXCEPT !.detections = SelectSeq(@, LAMBDA d : ~HasEmptyKey(d))]]

\* C29 (empty keys are dropped): no instance stands for the empty key, and
\* the instances (text, frame span, times, box, motion path, visuals and
\* confidence) are those the batch yields with its empty-key detections
\* taken out.
C29_EmptyKeysDropped ==
    Aggregated =>
        /\ \A i \in 1..Len(instances) : ~HasEmptyKey(instances[i])
        /\ instances = aggregateDetections(WithoutEmptyKeys(frames), fps,
                                           InstanceIds(instances))

\* Two frames repeat a detection of the empty key, and nothing is produced.
C29_Witness ==
    /\ Aggregated
    /\ Len(frames) = 2
    /\ \A k \in 1..2 : \E j \in 1..Len(frames[k].detections) :
          HasEmptyKey(frames[k].detections[j])
    /\ frames[1].frameIndex # frames[2].frameIndex
    /\ instances = <<>>

\* An instance produced next to a confident empty-key detection of another
\* box.
C29_BesideInstance ==
    /\ Aggregated
    /\ Len(instances) = 1
    /\ \E j \in 1..Len(AllDetections) :
          /\ HasEmptyKey(AllDetections[j])
          /\ AllDetections[j].confidence >= instances[1].detectionConfidence
          /\ AllDetections[j].boundingBox.x # 10

-----------------------------------------------------------------------------
(* Properties of the instance's visuals *)

\* The frame records whose detections list holds a detection of the
\* instance's group with the instance's text and its (maximal) confidence.
FramesOfBest(inst) ==
    {k \in 1..Len(frames) :
        \E j \in 1..Len(frames[k].detections) :
            LET d == frames[k].detections[j] IN
            /\ normalizeText(d.text) = normalizeText(inst.text)
            /\ d.text = inst.text
            /\ d.confidence = inst.detectionConfidence}

-----------------------------------------------------------------------------
(* Properties of the overlays of a PipelineResult *)

\* C27 (reachable motion types): every overlay of a PipelineResult carries a
\* motion path of type STATIC or LINEAR.
C27_MotionTypes ==
    pc = "done" =>
        \A i \in 1..Len(result.overlays) :
            result.overlays[i].motionPath.type \in {"STATIC", "LINEAR"}

\* A finished run whose overlay moved across four frames.
C27_Witness ==
    /\ pc = "done"
    /\ \E i \in 1..Len(result.overlays) :
          /\ result.overlays[i].motionPath.type = "LINEAR"
          /\ Len(result.overlays[i].motionPath.keyframes) = 4

\* type TextRole
TextRoles == {"HOOK", "BODY", "CTA"}

\* C28 (role validity): every overlay of a PipelineResult has a role among
\* HOOK, BODY and CTA, whatever the role collaborator answered.
C28_RoleValidity ==
    pc = "done" =>
        \A i \in 1..Len(result.overlays) :
            result.overlays[i].role \in TextRoles

-----------------------------------------------------------------------------
(* Properties of the editor store *)

\* What the store would send if reRender were called now.
CurrentRequest == RenderRequest(editor.project[1], editor.segments)

\* C30 (re-render does not lose edits): when a reRender call resolves while
\* a project is loaded, the project keeps the design schema and the segments
\* it had just before, hasUnsavedChanges stays true if the store holds edits
\* the call did not send, and isReRendering is false; isReRendering is false
\* after a call rejects, too.
C30_EditsSurvive ==
    [][/\ \A c \in 1..MaxCalls :
            (reRenderResolves(c) /\ editor.project # <<>>) =>
                /\ editor'.project # <<>>
                /\ editor'.project[1].designSchema = editor.project[1].designSchema
                /\ editor'.segments = editor.segments
                /\ (editor.hasUnsavedChanges
                        /\ CurrentRequest # editor.calls[c].sent)
                      => editor'.hasUnsavedChanges
                /\ ~editor'.isReRendering
       /\ \A c \in 1..MaxCalls : reRenderRejects(c) => ~editor'.isReRendering]_vars

-----------------------------------------------------------------------------
(* Properties of analyzeVideoFrames *)

\* The number of failed attempts after which a frame's analysis is given up.
GiveUpAfter == IF vision.variant = "retrying" THEN 3 ELSE 1

\* C22 (frame analysis completeness): analyzeVideoFrames returns one entry
\* per input frame, in frame order, entry k carrying frameIndex k - 1 and
\* its frame's timestamp; no frame is tried more often than allowed; and a
\* frame whose analysis failed for good is present with no detections.
C22_VisionComplete ==
    /\ vision.state # "idle" =>
          \A k \in 1..Len(vision.input) : vision.failures[k] <= GiveUpAfter
    /\ vision.state = "returned" =>
          /\ frames = vision.results
          /\ Len(frames) = Len(vision.input)
          /\ \A k \in 1..Len(frames) :
                /\ frames[k].frameIndex = k - 1
                /\ frames[k].timestamp = vision.input[k].timestamp
                /\ vision.failures[k] = GiveUpAfter => frames[k].detections = <<>>

\* Four frames (two batches) of which the second failed for good while the
\* first and the last were analysed with a detection.
C22_Witness ==
    /\ vision.state = "returned"
    /\ Len(frames) = 4
    /\ vision.failures[2] = GiveUpAfter
    /\ frames[1].detections # <<>>
    /\ frames[4].detections # <<>>
    /\ vision.failures[4] > 0

-----------------------------------------------------------------------------
(* Properties of the motion tracker *)

\* (length of the longer string - edit distance) / length of the longer
\* string, for two non-empty strings.
EditSimilarity(a, b) ==
    LET longest == IF Len(a) >= Len(b) THEN Len(a) ELSE Len(b) IN
    Rat(longest - levenshteinDistance(a, b), longest)

\* C23 (fuzzy merge threshold): a detection whose normalized text has
\* similarity of at least 0.8 to the key of the existing group joins that
\* group instead of starting a new one.
C23_FuzzyThreshold ==
    (pc = "called" /\ result.call = "groupSimilarText") =>
        LET a == trackerNormalizeText(result.texts[1])
            b == trackerNormalizeText(result.texts[2])
        IN  RatLE(Rat(8, 10), EditSimilarity(a, b)) =>
                /\ Len(result.groups) = 1
                /\ Len(result.groups[1].members) = 2

\* The mean of distance / time delta over the steps lo..hi of keyframes kf
\* (step i leads from keyframe i to keyframe i + 1), all time deltas positive.
MeanVelocity(kf, lo, hi) ==
    RatDivInt(
        RatSum([j \in 1..(hi - lo + 1) |->
            LET a == kf[lo + j - 1]
                b == kf[lo + j]
                dx == RatSub(b.x, a.x)
                dy == RatSub(b.y, a.y)
                dist == Sqrt(RatAdd(RatMul(dx, dx), RatMul(dy, dy)))
            IN  Rat(dist.n, dist.d * (b.time - a.time))]),
        hi - lo + 1)

PositiveSteps(kf) == \A i \in 1..(Len(kf) - 1) : kf[i + 1].time > kf[i].time

\* C24 (velocity-profile easing): determineEasing returns linear for fewer
\* than 3 keyframes; otherwise, with f and s the mean step velocities of the
\* first and second half of the steps, ease-in if f < 70% of s, else
\* ease-out if s < 70% of f, else linear if |f - s| < 30% of f, else
\* ease-in-out; and it returns one of the four values also when a time
\* delta is zero.
C24_Easing ==
    (pc = "called" /\ result.call = "determineEasing") =>
        LET kf == result.keyframes
            steps == Len(kf) - 1
            half == steps \div 2
            f == MeanVelocity(kf, 1, half)
            s == MeanVelocity(kf, half + 1, steps)
            gap == RatSub(f, s)
        IN  /\ result.returned \in {"linear", "ease-in", "ease-out", "ease-in-out"}
            /\ Len(kf) < 3 => result.returned = "linear"
            /\ (Len(kf) >= 3 /\ PositiveSteps(kf)) =>
                  result.returned =
                      IF RatLT(f, RatMul(s, Rat(70, 100))) THEN "ease-in"
                      ELSE IF RatLT(s, RatMul(f, Rat(70, 100))) THEN "ease-out"
                      ELSE IF RatLT(Rat(Abs(gap.n), gap.d), RatMul(f, Rat(30, 100)))
                      THEN "linear"
                      ELSE "ease-in-out"

\* Four keyframes at increasing times whose second half is between 1.3 and
\* 1.43 times as fast as the first: the call returned ease-in-out.
C24_Witness ==
    /\ pc = "called"
    /\ result.call = "determineEasing"
    /\ Len(result.keyframes) = 4
    /\ PositiveSteps(result.keyframes)
    /\ result.returned = "ease-in-out"
    /\ RatLT(MeanVelocity(result.keyframes, 1, 1), MeanVelocity(result.keyframes, 2, 3))

=============================================================================
